---- MODULE Spec2Model ----
(***************************************************************************)
(* Model of the A2A JSON-RPC front end of a2a_entrypoint_package:          *)
(*   a2a_server.py  - input extractor, envelope builders, POST / handler,  *)
(*                    the built-in stub agent                              *)
(*   run_a2a.py     - the placeholder agent and the choice of agent        *)
(*   schema.py      - the pydantic output schema                           *)
(*                                                                         *)
(* JSON values are modelled as records of one fixed shape ("cells"), JSON  *)
(* objects as records whose fields are cells, a cell of kind "absent"      *)
(* standing for a key the object does not have.  Strings are sequences of  *)
(* characters, so that str.strip() is computed and not assumed.            *)
(***************************************************************************)
EXTENDS Integers, Sequences, FiniteSets, TLC

VARIABLES
    run_agent_fn,   \* create_app's run_agent_fn: "stub" (None), "placeholder", "custom"
    pc,             \* position of the POST / handler
    payload,        \* the parsed request body: one request object or a batch
    idx,            \* batch loop: index of the next item
    responses,      \* batch loop: the responses list
    trace,          \* per handled item: what _handle_single_jsonrpc did with it
    http,           \* what POST / returned
    params,         \* SpecExtract: argument of _extract_input_from_jsonrpc
    extracted,      \* SpecExtract: its return value
    output_dict,    \* SpecValidate: the agent's return value
    validated       \* SpecValidate: what the handler made of it

vars == <<run_agent_fn, pc, payload, idx, responses, trace, http,
          params, extracted, output_dict, validated>>

serverVars == <<run_agent_fn, pc, payload, idx, responses, trace, http>>

-----------------------------------------------------------------------------
(* Bounds *)

MaxStrLen == 2
MaxBatch == 3
MaxEquations == 2

-----------------------------------------------------------------------------
(* JSON cells *)

Absent == [k |-> "absent", s |-> <<>>, n |-> 0]
Null == [k |-> "null", s |-> <<>>, n |-> 0]
Str(cs) == [k |-> "str", s |-> cs, n |-> 0]
Num(i) == [k |-> "int", s |-> <<>>, n |-> i]
Bool(b) == [k |-> "bool", s |-> <<>>, n |-> IF b THEN 1 ELSE 0]
\* a JSON array or object held as an opaque value; n = 0 is the empty one
Obj(i) == [k |-> "obj", s |-> <<>>, n |-> i]

RECURSIVE SeqsUpTo(_, _)
SeqsUpTo(S, n) ==
    IF n = 0 THEN {<<>>}
    ELSE LET r == SeqsUpTo(S, n - 1)
         IN r \cup {Append(q, c) : q \in r, c \in S}

Whitespace == {" ", "\t", "\n"}

\* str.strip(): leading and trailing whitespace removed
RECURSIVE LStrip(_)
LStrip(cs) ==
    IF cs = <<>> \/ Head(cs) \notin Whitespace THEN cs ELSE LStrip(Tail(cs))

RECURSIVE RStrip(_)
RStrip(cs) ==
    IF cs = <<>> \/ cs[Len(cs)] \notin Whitespace THEN cs
    ELSE RStrip(SubSeq(cs, 1, Len(cs) - 1))

Strip(cs) == RStrip(LStrip(cs))

\* dict.get(key): None for a missing key
Get(c) == IF c.k = "absent" THEN Null ELSE c

\* Python truthiness of a value
Truthy(c) ==
    CASE c.k = "str" -> c.s # <<>>
      [] c.k \in {"int", "bool", "obj"} -> c.n # 0
      [] OTHER -> FALSE

-----------------------------------------------------------------------------
(* a2a_server.py: _extract_input_from_jsonrpc *)

NoSchema == [k |-> "absent", name |-> Absent, version |-> Absent]
NoPaper == [k |-> "absent", doi |-> Absent]
NoInput == [k |-> "absent", more |-> FALSE, chunk_id |-> Absent,
            content_type |-> Absent, text |-> Absent]

\* params == {}
EmptyParams ==
    [k |-> "dict", task_id |-> Absent, schema |-> NoSchema, paper |-> NoPaper,
     input |-> NoInput, input_text |-> Absent, text |-> Absent,
     chunk_text |-> Absent, content |-> Absent]

\* params that is not a dict (null, a string, an array)
OtherParams == [EmptyParams EXCEPT !.k = "other"]

\* meta: Dict[str, Any] = {}
EmptyMeta ==
    [task_id |-> Absent, schema_name |-> Absent, schema_version |-> Absent,
     input_doi |-> Absent, chunk_id |-> Absent, content_type |-> Absent]

\* bool(inp) for a dict: it has at least one key
NonEmptyInput(inp) ==
    \/ inp.more
    \/ inp.chunk_id.k # "absent"
    \/ inp.content_type.k # "absent"
    \/ inp.text.k # "absent"

\* isinstance(v, str) and v.strip()
IsText(c) == c.k = "str" /\ Strip(c.s) # <<>>

\* for k in ["input_text", "text", "chunk_text", "content"]
DirectFieldsMutOrder == <<"text", "input_text", "chunk_text", "content">>
DirectFields == <<"input_text", "text", "chunk_text", "content">>

RECURSIVE FirstDirect(_, _)
FirstDirect(p, i) ==
    IF i > Len(DirectFields) THEN Null
    ELSE IF IsText(p[DirectFields[i]]) THEN p[DirectFields[i]]
    ELSE FirstDirect(p, i + 1)

MetaTaskId(p, meta) ==
    IF p.task_id.k # "absent"
    THEN [meta EXCEPT !.task_id = Get(p.task_id)]
    ELSE meta

MetaSchema(p, meta) ==
    IF p.schema.k = "dict"
    THEN [meta EXCEPT !.schema_name = Get(p.schema.name),
                      !.schema_version = Get(p.schema.version)]
    ELSE meta

MetaPaperMutAlways(p, meta) ==
    [meta EXCEPT !.input_doi = Get(p.paper.doi)]
MetaPaper(p, meta) ==
    IF p.paper.k = "dict"
    THEN [meta EXCEPT !.input_doi =
              IF Truthy(Get(p.paper.doi)) THEN p.paper.doi
              ELSE Get(meta.input_doi)]
    ELSE meta

MetaInput(p, meta) ==
    IF p.input.k = "dict" /\ NonEmptyInput(p.input)
    THEN [meta EXCEPT !.chunk_id = Get(p.input.chunk_id),
                      !.content_type = Get(p.input.content_type)]
    ELSE meta

extract_input_from_jsonrpc(p) ==
    IF p.k # "dict" THEN [text |-> Null, meta |-> EmptyMeta]
    ELSE LET meta == MetaInput(p, MetaPaper(p, MetaSchema(p, MetaTaskId(p, EmptyMeta))))
         IN IF p.input.k = "dict" /\ NonEmptyInput(p.input) /\ IsText(p.input.text)
            THEN [text |-> p.input.text, meta |-> meta]
            ELSE [text |-> FirstDirect(p, 1), meta |-> meta]

-----------------------------------------------------------------------------
(* schema.py: the pydantic (v2) models, every one with extra="allow".       *)
(* Each modelled object carries the declared fields and slots for           *)
(* schema-unknown keys: "extra" everywhere, and "notes" in an equation.     *)

NoPaperOut == [k |-> "absent", doi |-> Absent, title |-> Absent,
               year |-> Absent, extra |-> Absent]
NoMetaOut == [k |-> "absent", task_id |-> Absent, input_doi |-> Absent,
              schema_name |-> Absent, schema_version |-> Absent, extra |-> Absent]
NoEquations == [k |-> "absent", items |-> <<>>]
\* a value that is not a dict: None, a string, an array
NotAnOutput(kind) ==
    [k |-> kind, paper |-> NoPaperOut, equations |-> NoEquations,
     extraction_metadata |-> NoMetaOut, extra |-> Absent]
NotAnEquation ==
    [k |-> "other", latex |-> Absent, model_performance |-> Absent,
     notes |-> Absent, extra |-> Absent]

Err(loc, type) == <<[loc |-> loc, type |-> type]>>

\* Optional[str] = None
OptStrErrors(c, loc) ==
    IF c.k \in {"absent", "null", "str"} THEN <<>> ELSE Err(loc, "string_type")
OptStrValue(c) == Get(c)

\* Optional[Union[int, str]] = None; lax mode takes a bool as an int
OptIntOrStrErrors(c, loc) ==
    IF c.k \in {"absent", "null", "int", "str", "bool"} THEN <<>>
    ELSE Err(Append(loc, "int"), "int_type") \o Err(Append(loc, "str"), "string_type")
OptIntOrStrValue(c) == IF c.k = "bool" THEN Num(c.n) ELSE Get(c)

\* Optional[Any] = None
OptAnyValue(c) == Get(c)

\* class Paper
PaperErrors(p, loc) ==
    CASE p.k = "absent" -> Err(loc, "missing")
      [] p.k = "dict" ->
            OptStrErrors(p.doi, Append(loc, "doi"))
            \o OptStrErrors(p.title, Append(loc, "title"))
            \o OptIntOrStrErrors(p.year, Append(loc, "year"))
      [] OTHER -> Err(loc, "model_type")

PaperDumpMutDropExtra(p) ==
    [k |-> "dict", doi |-> OptStrValue(p.doi), title |-> OptStrValue(p.title),
     year |-> OptIntOrStrValue(p.year), extra |-> Absent]
PaperDump(p) ==
    [k |-> "dict", doi |-> OptStrValue(p.doi), title |-> OptStrValue(p.title),
     year |-> OptIntOrStrValue(p.year), extra |-> p.extra]

\* class Equation
EquationErrors(e, loc) ==
    IF e.k = "dict" THEN OptStrErrors(e.latex, Append(loc, "latex"))
    ELSE Err(loc, "model_type")

EquationDump(e) ==
    [k |-> "dict", latex |-> OptStrValue(e.latex),
     model_performance |-> OptAnyValue(e.model_performance),
     notes |-> e.notes, extra |-> e.extra]

\* class ExtractionMetadata
MetadataErrors(m, loc) ==
    CASE m.k = "absent" -> Err(loc, "missing")
      [] m.k = "dict" ->
            OptStrErrors(m.task_id, Append(loc, "task_id"))
            \o OptStrErrors(m.input_doi, Append(loc, "input_doi"))
            \o OptStrErrors(m.schema_name, Append(loc, "schema_name"))
            \o OptStrErrors(m.schema_version, Append(loc, "schema_version"))
      [] OTHER -> Err(loc, "model_type")

MetadataDump(m) ==
    [k |-> "dict", task_id |-> OptStrValue(m.task_id),
     input_doi |-> OptStrValue(m.input_doi),
     schema_name |-> OptStrValue(m.schema_name),
     schema_version |-> OptStrValue(m.schema_version), extra |-> m.extra]

\* the index of a list item as it appears in an error's loc
IndexName(i) == <<"0", "1", "2", "3", "4">>[i]

RECURSIVE ItemErrors(_, _)
ItemErrors(items, i) ==
    IF i > Len(items) THEN <<>>
    ELSE EquationErrors(items[i], <<"equations", IndexName(i)>>)
         \o ItemErrors(items, i + 1)

\* equations: List[Equation]
EquationsErrorsMutAnyValue(eqs) ==
    IF eqs.k = "absent" THEN Err(<<"equations">>, "missing")
    ELSE ItemErrors(eqs.items, 1)
EquationsErrors(eqs) ==
    CASE eqs.k = "absent" -> Err(<<"equations">>, "missing")
      [] eqs.k = "list" -> ItemErrors(eqs.items, 1)
      [] OTHER -> Err(<<"equations">>, "list_type")

RECURSIVE DumpItems(_, _)
DumpItems(items, i) ==
    IF i > Len(items) THEN <<>>
    ELSE <<EquationDump(items[i])>> \o DumpItems(items, i + 1)

EquationsDump(eqs) == [k |-> "list", items |-> DumpItems(eqs.items, 1)]

\* class ExtractionOutput: all errors are collected, in field order
OutputErrors(o) ==
    IF o.k # "dict" THEN Err(<<>>, "model_type")
    ELSE PaperErrors(o.paper, <<"paper">>)
         \o EquationsErrors(o.equations)
         \o MetadataErrors(o.extraction_metadata, <<"extraction_metadata">>)

\* validated.model_dump(): declared fields with defaults applied, extras kept
model_dump(o) ==
    [k |-> "dict", paper |-> PaperDump(o.paper),
     equations |-> EquationsDump(o.equations),
     extraction_metadata |-> MetadataDump(o.extraction_metadata),
     extra |-> o.extra]

\* ExtractionOutput.model_validate(output_dict): ValidationError or the model
model_validate(o) ==
    LET errs == OutputErrors(o)
    IN [ok |-> errs = <<>>, errors |-> errs]

-----------------------------------------------------------------------------
(* a2a_server.py: the JSON-RPC envelopes *)

InvalidParamsCode == -32602
SchemaErrorCode == -32000

MissingTextMessage ==
    "Missing input text in params (expected input.text or input_text)."
SchemaErrorMessage ==
    "White agent returned JSON that does not match required schema (paper/equations/extraction_metadata)."

NoData == [members |-> {}, method |-> Absent, validation_errors |-> <<>>]
MethodData(method) ==
    [members |-> {"method"}, method |-> method, validation_errors |-> <<>>]
ValidationData(errs) ==
    [members |-> {"validation_errors"}, method |-> Absent, validation_errors |-> errs]

NoError == [members |-> {}, code |-> 0, message |-> "", data |-> NoData]
NoResult == NotAnOutput("absent")

\* a handler returning None
NoResponse ==
    [members |-> {}, jsonrpc |-> "", id |-> Absent, result |-> NoResult,
     error |-> NoError]

jsonrpc_successMutNullId(rpc_id, result) ==
    [members |-> {"jsonrpc", "id", "result"}, jsonrpc |-> "2.0", id |-> Null,
     result |-> result, error |-> NoError]
jsonrpc_success(rpc_id, result) ==
    [members |-> {"jsonrpc", "id", "result"}, jsonrpc |-> "2.0", id |-> rpc_id,
     result |-> result, error |-> NoError]

jsonrpc_errorMutNoData(rpc_id, code, message, data) ==
    [members |-> {"jsonrpc", "id", "error"}, jsonrpc |-> "2.0", id |-> rpc_id,
     result |-> NoResult,
     error |-> [members |-> {"code", "message"}, code |-> code,
                message |-> message, data |-> NoData]]
jsonrpc_error(rpc_id, code, message, data) ==
    [members |-> {"jsonrpc", "id", "error"}, jsonrpc |-> "2.0", id |-> rpc_id,
     result |-> NoResult,
     error |-> [members |-> {"code", "message"}
                            \cup (IF data = NoData THEN {} ELSE {"data"}),
                code |-> code, message |-> message, data |-> data]]

-----------------------------------------------------------------------------
(* The agent functions *)

StubNotes == Str(<<"S", "T", "U", "B">>)

\* a2a_server.py: _run_agent_stub(text, meta)
run_agent_stub(text, meta) ==
    [k |-> "dict",
     paper |-> [k |-> "dict", doi |-> Get(meta.input_doi), title |-> Null,
                year |-> Null, extra |-> Absent],
     equations |-> [k |-> "list",
                    items |-> <<[k |-> "dict", latex |-> Null,
                                 model_performance |-> Null,
                                 notes |-> StubNotes, extra |-> Absent]>>],
     extraction_metadata |-> [k |-> "dict", task_id |-> Get(meta.task_id),
                              input_doi |-> Get(meta.input_doi),
                              schema_name |-> Get(meta.schema_name),
                              schema_version |-> Get(meta.schema_version),
                              extra |-> Absent],
     extra |-> Absent]

\* run_a2a.py: run_agent_placeholder(text, meta) returns None
run_agent_placeholder(text, meta) == NotAnOutput("none")

\* What the call of the agent function yields.  ret is the outcome of an
\* injected function: a returned value, or an exception.
Returned(v) == [raised |-> FALSE, value |-> v]
Raised == [raised |-> TRUE, value |-> NotAnOutput("none")]

CallAgent(fn, text, meta, ret) ==
    CASE fn = "stub" -> Returned(run_agent_stub(text, meta))
      [] fn = "placeholder" -> Returned(run_agent_placeholder(text, meta))
      [] OTHER -> ret

-----------------------------------------------------------------------------
(* a2a_server.py: _handle_single_jsonrpc *)

\* body.get("method", ""), body.get("params", {})
MethodOf(body) == IF body.method.k = "absent" THEN Str(<<>>) ELSE body.method
ParamsOf(body) == IF body.params.k = "absent" THEN EmptyParams ELSE body.params

\* rpc_id is None and isinstance(body.get("id", None), type(None))
IsNotificationMutAbsentOnly(body) == body.id.k = "absent"
IsNotification(body) == Get(body.id).k = "null"

Outcome(resp, raised, calls, ex, out) ==
    [resp |-> resp, raised |-> raised, calls |-> calls, text |-> ex.text,
     meta |-> ex.meta, output |-> out]

NothingExtracted == [text |-> Absent, meta |-> EmptyMeta]

\* the part of the handler after the notification check
HandleRequest(body, fn, ret) ==
    LET rpc_id == Get(body.id)
        ex == extract_input_from_jsonrpc(ParamsOf(body))
    IN IF ~Truthy(ex.text)
       THEN Outcome(jsonrpc_error(rpc_id, InvalidParamsCode, MissingTextMessage,
                                  MethodData(MethodOf(body))),
                    FALSE, <<"extract">>, ex, NotAnOutput("none"))
       ELSE LET called == CallAgent(fn, ex.text, ex.meta, ret)
            IN IF called.raised
               THEN \* no try around the call: the exception leaves the handler
                    Outcome(NoResponse, TRUE, <<"extract", "agent">>, ex,
                            called.value)
               ELSE LET v == model_validate(called.value)
                    IN Outcome(
                        IF v.ok
                        THEN jsonrpc_success(rpc_id, model_dump(called.value))
                        ELSE jsonrpc_error(rpc_id, SchemaErrorCode,
                                           SchemaErrorMessage,
                                           ValidationData(v.errors)),
                        FALSE, <<"extract", "agent", "validate">>, ex,
                        called.value)

handle_single_jsonrpc(body, fn, ret) ==
    IF IsNotification(body)
    THEN Outcome(NoResponse, FALSE, <<>>, NothingExtracted, NotAnOutput("none"))
    ELSE HandleRequest(body, fn, ret)

-----------------------------------------------------------------------------
(* Inputs: params values for _extract_input_from_jsonrpc *)

Strings(alphabet) == {Str(q) : q \in SeqsUpTo(alphabet, MaxStrLen)}

InputDict(more, chunk_id, content_type, text) ==
    [k |-> "dict", more |-> more, chunk_id |-> chunk_id,
     content_type |-> content_type, text |-> text]

\* the text-bearing fields varied: absent, not a string, empty, blank, text
TextInputs ==
    {NoInput, [NoInput EXCEPT !.k = "other"],
     InputDict(FALSE, Absent, Absent, Absent),
     InputDict(TRUE, Absent, Absent, Absent)}
    \cup {InputDict(FALSE, Absent, Absent, t) :
             t \in {Null} \cup Strings({" ", "i"})}

TextParams ==
    {[EmptyParams EXCEPT !.input = i, !.input_text = a, !.text = b,
                         !.chunk_text = c, !.content = d] :
        i \in TextInputs,
        a \in {Absent, Num(5), Str(<<"\t">>), Str(<<"j">>)},
        b \in {Absent, Obj(1)} \cup Strings({" ", "t"}),
        c \in {Absent, Str(<<"\n">>), Str(<<"c">>)},
        d \in {Null, Str(<<>>), Str(<<"o">>)}}

\* the metadata-bearing fields varied
MetaSchemas ==
    {NoSchema, [NoSchema EXCEPT !.k = "other"]}
    \cup {[k |-> "dict", name |-> n, version |-> v] :
             n \in {Absent, Null, Str(<<"s">>)}, v \in {Absent, Num(2)}}

MetaPapers ==
    {NoPaper, [NoPaper EXCEPT !.k = "other"]}
    \cup {[k |-> "dict", doi |-> d] :
             d \in {Absent, Null, Str(<<>>), Str(<<"d">>), Num(0), Num(7)}}

MetaInputs ==
    {NoInput, [NoInput EXCEPT !.k = "other"]}
    \cup {InputDict(m, c, t, x) :
             m \in BOOLEAN, c \in {Absent, Num(1)},
             t \in {Absent, Str(<<"p">>)},
             x \in {Absent, Str(<<" ">>), Str(<<"i">>)}}

MetaParams ==
    {[EmptyParams EXCEPT !.task_id = t, !.schema = sc, !.paper = pa,
                         !.input = i] :
        t \in {Absent, Null, Str(<<"k">>), Num(7)},
        sc \in MetaSchemas, pa \in MetaPapers, i \in MetaInputs}

AllParams == {OtherParams} \cup TextParams \cup MetaParams

-----------------------------------------------------------------------------
(* Inputs: values an agent function may return *)

PaperDict(doi, title, year, extra) ==
    [k |-> "dict", doi |-> doi, title |-> title, year |-> year, extra |-> extra]
MetaDict(task_id, input_doi, schema_name, schema_version, extra) ==
    [k |-> "dict", task_id |-> task_id, input_doi |-> input_doi,
     schema_name |-> schema_name, schema_version |-> schema_version,
     extra |-> extra]
EquationDict(latex, perf, notes, extra) ==
    [k |-> "dict", latex |-> latex, model_performance |-> perf,
     notes |-> notes, extra |-> extra]
EquationList(items) == [k |-> "list", items |-> items]
OutputDict(paper, equations, meta, extra) ==
    [k |-> "dict", paper |-> paper, equations |-> equations,
     extraction_metadata |-> meta, extra |-> extra]

PaperValues ==
    {NoPaperOut, [NoPaperOut EXCEPT !.k = "other"]}
    \cup {PaperDict(d, t, y, x) :
             d \in {Absent, Null, Str(<<"d">>), Num(7)},
             t \in {Absent, Str(<<"T">>)},
             y \in {Absent, Num(2020), Str(<<"y">>), Bool(TRUE), Obj(1)},
             x \in {Absent, Num(9)}}

MetaValues ==
    {NoMetaOut, [NoMetaOut EXCEPT !.k = "other"]}
    \cup {MetaDict(t, Absent, n, v, x) :
             t \in {Absent, Null, Str(<<"k">>), Num(7)},
             n \in {Absent, Str(<<"s">>)},
             v \in {Null, Num(2)},
             x \in {Absent, Str(<<"m">>)}}

EquationValues ==
    {NotAnEquation}
    \cup {EquationDict(l, Absent, Absent, Bool(FALSE)) :
             l \in {Absent, Str(<<"x">>), Num(1)}}
    \cup {EquationDict(l, Obj(1), Str(<<"n">>), Absent) :
             l \in {Null, Str(<<"y">>), Obj(0)}}

EquationsValues ==
    {NoEquations, [NoEquations EXCEPT !.k = "other"]}
    \cup {EquationList(q) : q \in SeqsUpTo(EquationValues, MaxEquations)}

\* a few values of each part, conforming and not, to go with a varied part
SomePapers ==
    {PaperDict(Absent, Absent, Absent, Absent),
     PaperDict(Str(<<"d">>), Absent, Num(2020), Num(9)),
     [NoPaperOut EXCEPT !.k = "other"]}
SomeMetas ==
    {MetaDict(Absent, Absent, Absent, Absent, Absent),
     MetaDict(Str(<<"k">>), Absent, Absent, Null, Str(<<"m">>)),
     MetaDict(Num(7), Absent, Absent, Absent, Absent)}
SomeEquations ==
    {EquationList(<<>>),
     EquationList(<<EquationDict(Str(<<"x">>), Absent, Str(<<"n">>), Absent),
                    EquationDict(Null, Obj(1), Absent, Bool(FALSE))>>),
     [NoEquations EXCEPT !.k = "other"]}

AgentOutputs ==
    {NotAnOutput("none"), NotAnOutput("other")}
    \cup {OutputDict(p, e, m, x) :
             p \in PaperValues, e \in SomeEquations, m \in SomeMetas,
             x \in {Absent, Str(<<"z">>)}}
    \cup {OutputDict(p, e, m, x) :
             p \in SomePapers, e \in EquationsValues, m \in SomeMetas,
             x \in {Absent, Str(<<"z">>)}}
    \cup {OutputDict(p, e, m, x) :
             p \in SomePapers, e \in SomeEquations, m \in MetaValues,
             x \in {Absent, Str(<<"z">>)}}

-----------------------------------------------------------------------------
(* Inputs: request objects and what an injected agent function does *)

Body(id, method, ps) == [id |-> id, method |-> method, params |-> ps]

AbsentParams == [EmptyParams EXCEPT !.k = "absent"]

RequestIds == {Absent, Null, Num(0), Str(<<"r">>)}

ServerParams ==
    {AbsentParams, OtherParams}
    \cup {[EmptyParams EXCEPT !.task_id = t, !.schema = sc, !.paper = pa,
                              !.input = i, !.content = c] :
             t \in {Absent, Str(<<"k">>), Num(7)},
             sc \in {NoSchema,
                     [k |-> "dict", name |-> Absent, version |-> Str(<<"v">>)]},
             pa \in {NoPaper, [k |-> "dict", doi |-> Str(<<"d">>)],
                     [k |-> "dict", doi |-> Num(7)]},
             i \in {NoInput, InputDict(FALSE, Absent, Absent, Str(<<"i">>)),
                    InputDict(FALSE, Str(<<"1">>), Absent, Str(<<" ">>))},
             c \in {Absent}}

SingleBodies ==
    {Body(id, m, ps) :
        id \in RequestIds, m \in {Absent, Null, Str(<<"m">>)}, ps \in ServerParams}

TextOnlyParams == [EmptyParams EXCEPT !.text = Str(<<"t">>)]

BatchBodies ==
    {Body(Absent, Str(<<"m">>), TextOnlyParams),
     Body(Null, Str(<<"m">>), EmptyParams),
     Body(Num(0), Str(<<"m">>), TextOnlyParams),
     Body(Num(1), Str(<<"m">>), TextOnlyParams),
     Body(Num(1), Absent, EmptyParams)}

Batches == SeqsUpTo(BatchBodies, MaxBatch)

\* {"paper": {}, "equations": "not-a-list", "extraction_metadata": {}}
NotAListOutput ==
    OutputDict(PaperDict(Absent, Absent, Absent, Absent),
               [NoEquations EXCEPT !.k = "other"],
               MetaDict(Absent, Absent, Absent, Absent, Absent), Absent)

ConformingOutput ==
    OutputDict(PaperDict(Str(<<"d">>), Absent, Bool(TRUE), Num(9)),
               EquationList(<<EquationDict(Str(<<"x">>), Absent, Str(<<"n">>), Absent),
                              EquationDict(Absent, Obj(1), Absent, Bool(FALSE))>>),
               MetaDict(Null, Absent, Absent, Absent, Str(<<"m">>)),
               Str(<<"z">>))

CustomOutcomes ==
    {Raised}
    \cup {Returned(v) :
             v \in {NotAnOutput("none"), NotAnOutput("other"), NotAListOutput,
                    ConformingOutput,
                    [ConformingOutput EXCEPT !.extraction_metadata = NoMetaOut],
                    [ConformingOutput EXCEPT !.paper.doi = Num(7)]}}

\* the stub and the placeholder are part of the program: nothing to choose
AgentOutcomes(fn) ==
    IF fn = "custom" THEN CustomOutcomes ELSE {Returned(NotAnOutput("none"))}

\* in a batch, per item: an exception, a conforming value, one that is not
BatchOutcomes(fn) ==
    AgentOutcomes(fn) \cap {Raised, Returned(ConformingOutput),
                            Returned(NotAListOutput),
                            Returned(NotAnOutput("none"))}

-----------------------------------------------------------------------------
(* a2a_server.py: POST / (jsonrpc_root), one request at a time: the handler *)
(* never yields between its await of the body and its return.               *)

NoPayload == [batch |-> FALSE, items |-> <<>>]
NoHttp == [kind |-> "none", body |-> <<>>]

IdleParams == EmptyParams
IdleOutput == NotAnOutput("none")

ServerIdle ==
    /\ pc = "idle"
    /\ payload = NoPayload
    /\ idx = 0
    /\ responses = <<>>
    /\ trace = <<>>
    /\ http = NoHttp

PureIdle ==
    /\ params = IdleParams
    /\ extracted = NothingExtracted
    /\ output_dict = IdleOutput
    /\ validated = NoResponse

pureVars == <<params, extracted, output_dict, validated>>

\* create_app(run_agent_fn = ...), as run_a2a.py's main calls it
Init ==
    /\ run_agent_fn \in {"stub", "placeholder", "custom"}
    /\ ServerIdle
    /\ PureIdle

\* payload = await req.json(), an object
ReceiveSingle ==
    /\ pc = "idle"
    /\ \E b \in SingleBodies : payload' = [batch |-> FALSE, items |-> <<b>>]
    /\ pc' = "single"
    /\ UNCHANGED <<run_agent_fn, idx, responses, trace, http, pureVars>>

\* payload = await req.json(), a list: responses = []
ReceiveBatch ==
    /\ pc = "idle"
    /\ \E bs \in Batches : payload' = [batch |-> TRUE, items |-> bs]
    /\ pc' = "batch"
    /\ idx' = 1
    /\ responses' = <<>>
    /\ UNCHANGED <<run_agent_fn, trace, http, pureVars>>

\* if resp is not None: responses.append(resp)
CollectMutPrepend(rs, resp) == IF resp = NoResponse THEN rs ELSE <<resp>> \o rs
Collect(rs, resp) == IF resp = NoResponse THEN rs ELSE Append(rs, resp)

\* resp = await _handle_single_jsonrpc(payload, run_agent_fn); return resp
HandleSingle ==
    /\ pc = "single"
    /\ \E ret \in AgentOutcomes(run_agent_fn) :
          LET r == handle_single_jsonrpc(payload.items[1], run_agent_fn, ret)
          IN /\ trace' = <<r>>
             /\ IF r.raised
                THEN pc' = "fault" /\ http' = [kind |-> "fault", body |-> <<>>]
                ELSE pc' = "done" /\ http' = [kind |-> "single", body |-> <<r.resp>>]
    /\ UNCHANGED <<run_agent_fn, payload, idx, responses, pureVars>>

\* one turn of: for item in payload
HandleBatchItem ==
    /\ pc = "batch"
    /\ idx <= Len(payload.items)
    /\ \E ret \in BatchOutcomes(run_agent_fn) :
          LET r == handle_single_jsonrpc(payload.items[idx], run_agent_fn, ret)
          IN /\ trace' = Append(trace, r)
             /\ IF r.raised
                THEN /\ pc' = "fault"
                     /\ http' = [kind |-> "fault", body |-> <<>>]
                     /\ UNCHANGED <<idx, responses>>
                ELSE /\ responses' = Collect(responses, r.resp)
                     /\ idx' = idx + 1
                     /\ UNCHANGED <<pc, http>>
    /\ UNCHANGED <<run_agent_fn, payload, pureVars>>

\* return responses
ReturnBatch ==
    /\ pc = "batch"
    /\ idx > Len(payload.items)
    /\ pc' = "done"
    /\ http' = [kind |-> "batch", body |-> responses]
    /\ UNCHANGED <<run_agent_fn, payload, idx, responses, trace, pureVars>>

\* the server goes on to the next request
NextRequest ==
    /\ pc \in {"done", "fault"}
    /\ pc' = "idle"
    /\ payload' = NoPayload
    /\ idx' = 0
    /\ responses' = <<>>
    /\ trace' = <<>>
    /\ http' = NoHttp
    /\ UNCHANGED <<run_agent_fn, pureVars>>

Next ==
    \/ ReceiveSingle
    \/ ReceiveBatch
    \/ HandleSingle
    \/ HandleBatchItem
    \/ ReturnBatch
    \/ NextRequest

Spec == Init /\ [][Next]_vars

-----------------------------------------------------------------------------
(* The input extractor alone, applied to every params value of AllParams *)

InitExtract ==
    /\ run_agent_fn = "stub"
    /\ ServerIdle
    /\ params \in AllParams
    /\ extracted = NothingExtracted
    /\ output_dict = IdleOutput
    /\ validated = NoResponse

Extract ==
    /\ extracted = NothingExtracted
    /\ extracted' = extract_input_from_jsonrpc(params)
    /\ UNCHANGED <<serverVars, params, output_dict, validated>>

SpecExtract == InitExtract /\ [][Extract]_vars

-----------------------------------------------------------------------------
(* The validation step of the handler alone, applied to every value of     *)
(* AgentOutputs returned by an injected agent function, and to the          *)
(* placeholder's None                                                      *)

ValidateBody ==
    Body(Num(1), Str(<<"m">>), [EmptyParams EXCEPT !.input_text = Str(<<"j">>)])

InitValidate ==
    /\ run_agent_fn \in {"custom", "placeholder"}
    /\ ServerIdle
    /\ params = IdleParams
    /\ extracted = NothingExtracted
    /\ output_dict \in (IF run_agent_fn = "custom" THEN AgentOutputs
                        ELSE {run_agent_placeholder(<<>>, EmptyMeta)})
    /\ validated = NoResponse

Validate ==
    /\ validated = NoResponse
    /\ validated' =
          handle_single_jsonrpc(ValidateBody, run_agent_fn, Returned(output_dict)).resp
    /\ UNCHANGED <<serverVars, params, extracted, output_dict>>

SpecValidate == InitValidate /\ [][Validate]_vars

-----------------------------------------------------------------------------
(* Vocabulary of the properties *)

\* the item has an id that is present and not null
HasId(body) == body.id.k \notin {"absent", "null"}

\* the request the i-th entry of trace is about
ItemOf(i) == payload.items[i]

Handled == 1..Len(trace)

IsErrorEnvelope(resp, id, code) ==
    /\ resp.members = {"jsonrpc", "id", "error"}
    /\ resp.jsonrpc = "2.0"
    /\ resp.id = id
    /\ resp.error.code = code

IsSuccessEnvelope(resp, id) ==
    /\ resp.members = {"jsonrpc", "id", "result"}
    /\ resp.jsonrpc = "2.0"
    /\ resp.id = id

\* a string with at least one character that is not whitespace
HasNonWhitespace(c) ==
    /\ c.k = "str"
    /\ \E i \in 1..Len(c.s) : c.s[i] \notin Whitespace

\* the text-bearing fields of params, in order of precedence
TextCandidates(p) ==
    <<IF p.input.k = "dict" THEN p.input.text ELSE Absent,
      p.input_text, p.text, p.chunk_text, p.content>>

ExpectedText(p) ==
    LET c == TextCandidates(p)
        hits == {i \in 1..Len(c) : HasNonWhitespace(c[i])}
    IN IF p.k # "dict" \/ hits = {} THEN Null
       ELSE c[CHOOSE i \in hits : \A j \in hits : i <= j]

\* a value of a field declared Optional[str]
StringOrNull(c) == c.k \in {"absent", "null", "str"}

\* the value conforms to the output schema, as pydantic decides it
Conforms(o) ==
    /\ o.k = "dict"
    /\ o.paper.k = "dict"
    /\ StringOrNull(o.paper.doi)
    /\ StringOrNull(o.paper.title)
    /\ o.paper.year.k \in {"absent", "null", "int", "str", "bool"}
    /\ o.equations.k = "list"
    /\ \A i \in 1..Len(o.equations.items) :
          /\ o.equations.items[i].k = "dict"
          /\ StringOrNull(o.equations.items[i].latex)
    /\ o.extraction_metadata.k = "dict"
    /\ StringOrNull(o.extraction_metadata.task_id)
    /\ StringOrNull(o.extraction_metadata.input_doi)
    /\ StringOrNull(o.extraction_metadata.schema_name)
    /\ StringOrNull(o.extraction_metadata.schema_version)

\* r is the declared field v with its default applied
Defaulted(r, v) == r = (IF v.k = "absent" THEN Null ELSE v)

\* result is the normalized form of the conforming value o
IsNormalized(result, o) ==
    /\ result.k = "dict"
    /\ result.extra = o.extra
    /\ result.paper.k = "dict"
    /\ Defaulted(result.paper.doi, o.paper.doi)
    /\ Defaulted(result.paper.title, o.paper.title)
    /\ IF o.paper.year.k = "bool"
       THEN result.paper.year.k = "int" /\ result.paper.year.n = o.paper.year.n
       ELSE Defaulted(result.paper.year, o.paper.year)
    /\ result.paper.extra = o.paper.extra
    /\ result.equations.k = "list"
    /\ Len(result.equations.items) = Len(o.equations.items)
    /\ \A i \in 1..Len(o.equations.items) :
          LET r == result.equations.items[i]
              e == o.equations.items[i]
          IN /\ r.k = "dict"
             /\ Defaulted(r.latex, e.latex)
             /\ Defaulted(r.model_performance, e.model_performance)
             /\ r.notes = e.notes
             /\ r.extra = e.extra
    /\ result.extraction_metadata.k = "dict"
    /\ Defaulted(result.extraction_metadata.task_id, o.extraction_metadata.task_id)
    /\ Defaulted(result.extraction_metadata.input_doi, o.extraction_metadata.input_doi)
    /\ Defaulted(result.extraction_metadata.schema_name,
                 o.extraction_metadata.schema_name)
    /\ Defaulted(result.extraction_metadata.schema_version,
                 o.extraction_metadata.schema_version)
    /\ result.extraction_metadata.extra = o.extraction_metadata.extra

\* the indices up to n of the items that have an id, in ascending order
RECURSIVE Kept(_, _)
Kept(items, n) ==
    IF n = 0 THEN <<>>
    ELSE IF HasId(items[n]) THEN Append(Kept(items, n - 1), n)
    ELSE Kept(items, n - 1)

-----------------------------------------------------------------------------
(* Properties *)

\* C1: in a batch, the responses collected so far are exactly those of the
\* handled items that have a non-null id, one each, in the order of the
\* items, each with the id of its item; the array POST / returns is that
\* list for the whole batch.
C1_BatchResponsesFollowItems ==
    (payload.batch /\ pc \in {"batch", "done"}) =>
        LET kept == Kept(payload.items, idx - 1)
        IN /\ Len(trace) = idx - 1
           /\ Len(responses) = Len(kept)
           /\ \A j \in 1..Len(kept) :
                 /\ responses[j] # NoResponse
                 /\ responses[j].id = payload.items[kept[j]].id
                 /\ responses[j] = trace[kept[j]].resp
           /\ pc = "done" =>
                 /\ idx - 1 = Len(payload.items)
                 /\ http = [kind |-> "batch", body |-> responses]

C1_Witness ==
    /\ pc = "done"
    /\ payload.batch
    /\ Len(payload.items) = 3
    /\ payload.items[1].id = Num(1)
    /\ ~HasId(payload.items[2])
    /\ payload.items[3].id = Num(0)
    /\ Len(http.body) = 2
    /\ "result" \in http.body[1].members
    /\ "error" \in http.body[2].members
    /\ http.body[1].id = Num(1)
    /\ http.body[2].id = Num(0)

\* C2: a request whose id is absent or null gets no response, and neither
\* the extractor, the agent function nor the validator is called for it,
\* whatever its params hold.
C2_NotificationIgnored ==
    \A i \in Handled :
        ~HasId(ItemOf(i)) =>
            /\ trace[i].resp = NoResponse
            /\ trace[i].calls = <<>>
            /\ ~trace[i].raised
            /\ (~payload.batch /\ pc = "done") => http.body = <<NoResponse>>

C2_Witness ==
    /\ pc = "done"
    /\ ~payload.batch
    /\ run_agent_fn = "placeholder"
    /\ payload.items[1].id = Null
    /\ payload.items[1].params.input.text = Str(<<"i">>)
    /\ trace[1].resp = NoResponse

\* C3: a request with an id whose params yield no text gets the -32602
\* error with its own id, the fixed message and data = {method}, method
\* being "" when the request has none; the agent function is not called.
C3_MissingTextIsInvalidParams ==
    \A i \in Handled :
        (/\ HasId(ItemOf(i))
         /\ extract_input_from_jsonrpc(ParamsOf(ItemOf(i))).text = Null) =>
            /\ IsErrorEnvelope(trace[i].resp, ItemOf(i).id, InvalidParamsCode)
            /\ trace[i].resp.error.members = {"code", "message", "data"}
            /\ trace[i].resp.error.message = MissingTextMessage
            /\ trace[i].resp.error.data.members = {"method"}
            /\ trace[i].resp.error.data.method =
                  (IF ItemOf(i).method.k = "absent" THEN Str(<<>>)
                   ELSE ItemOf(i).method)
            /\ trace[i].calls = <<"extract">>
            /\ ~trace[i].raised

C3_Witness ==
    /\ pc = "done"
    /\ ~payload.batch
    /\ payload.items[1].id = Str(<<"r">>)
    /\ payload.items[1].method = Absent
    /\ payload.items[1].params.input.text = Str(<<" ">>)
    /\ trace[1].resp.error.code = InvalidParamsCode
    /\ trace[1].resp.error.data.method = Str(<<>>)

\* C4: when the value the agent function returned does not conform to the
\* schema (the placeholder's None included), the response is the -32000
\* error with the request's id and a non-empty validation_errors list,
\* and has no result.
C4_NonConformingIsSchemaError ==
    (validated # NoResponse /\ ~Conforms(output_dict)) =>
        /\ IsErrorEnvelope(validated, ValidateBody.id, SchemaErrorCode)
        /\ validated.error.message = SchemaErrorMessage
        /\ validated.error.data.members = {"validation_errors"}
        /\ validated.error.data.validation_errors # <<>>
        /\ "result" \notin validated.members

C4_Witness ==
    /\ run_agent_fn = "placeholder"
    /\ output_dict.k = "none"
    /\ validated.error.code = SchemaErrorCode
    /\ Len(validated.error.data.validation_errors) = 1

\* C5: an exception of the agent function is turned into an error envelope
\* with the request's id and never leaves the handler.
C5_AgentFailureIsCaught ==
    /\ pc # "fault"
    /\ \A i \in Handled :
          trace[i].raised =>
              /\ trace[i].resp.members = {"jsonrpc", "id", "error"}
              /\ trace[i].resp.id = ItemOf(i).id

\* C6: a request with an id and with text whose agent output conforms gets
\* {jsonrpc: "2.0", id, result}: its own id, the normalized value as a
\* record, no error member; the method plays no part.
C6_ConformingIsSuccess ==
    \A i \in Handled :
        (/\ HasId(ItemOf(i))
         /\ trace[i].calls = <<"extract", "agent", "validate">>
         /\ Conforms(trace[i].output)) =>
            /\ IsSuccessEnvelope(trace[i].resp, ItemOf(i).id)
            /\ IsNormalized(trace[i].resp.result, trace[i].output)
            /\ trace[i].resp.error = NoError

C6_Witness ==
    /\ pc = "done"
    /\ ~payload.batch
    /\ run_agent_fn = "custom"
    /\ payload.items[1].id = Num(0)
    /\ payload.items[1].method = Null
    /\ trace[1].output = ConformingOutput
    /\ "result" \in trace[1].resp.members
    /\ trace[1].resp.result.paper.year = Num(1)

\* C7: the text returned is the first of input.text (input a record),
\* input_text, text, chunk_text, content that is a string with a
\* non-whitespace character, and None when params is no record or none is.
C7_ExtractedTextIsFirstCandidate ==
    extracted # NothingExtracted => extracted.text = ExpectedText(params)

C7_Witness ==
    /\ extracted # NothingExtracted
    /\ params.input.text = Str(<<" ", " ">>)
    /\ params.input_text = Num(5)
    /\ params.text = Str(<<" ", "t">>)
    /\ params.chunk_text = Str(<<"c">>)
    /\ extracted.text = Str(<<" ", "t">>)

\* C8 as stated: a key is in meta only if its source field is in params.
C8_MetaKeyOnlyIfFieldPresent ==
    extracted # NothingExtracted =>
        /\ extracted.meta.task_id.k # "absent" => params.task_id.k # "absent"
        /\ extracted.meta.schema_name.k # "absent" => params.schema.name.k # "absent"
        /\ extracted.meta.schema_version.k # "absent" =>
              params.schema.version.k # "absent"
        /\ extracted.meta.input_doi.k # "absent" => params.paper.doi.k # "absent"
        /\ extracted.meta.chunk_id.k # "absent" => params.input.chunk_id.k # "absent"
        /\ extracted.meta.content_type.k # "absent" =>
              params.input.content_type.k # "absent"

\* C8 as amended: a key is in meta exactly when the record holding its
\* source field is there (params for task_id, schema, paper, a non-empty
\* input, each a record); it then carries the field's value, or null when
\* the field is absent (input_doi also when paper.doi is falsy).  So a key
\* has a non-null value only if its source field is present.
C8_MetaKeyIffHolderPresent ==
    extracted # NothingExtracted =>
        LET m == extracted.meta
            isDict == params.k = "dict"
            schemaThere == isDict /\ params.schema.k = "dict"
            paperThere == isDict /\ params.paper.k = "dict"
            inputThere == /\ isDict
                          /\ params.input.k = "dict"
                          /\ \/ params.input.more
                             \/ params.input.chunk_id # Absent
                             \/ params.input.content_type # Absent
                             \/ params.input.text # Absent
            ValueOrNull(c) == IF c = Absent THEN Null ELSE c
        IN /\ m.task_id = (IF isDict THEN params.task_id ELSE Absent)
           /\ m.schema_name =
                 (IF schemaThere THEN ValueOrNull(params.schema.name) ELSE Absent)
           /\ m.schema_version =
                 (IF schemaThere THEN ValueOrNull(params.schema.version) ELSE Absent)
           /\ m.input_doi =
                 (IF ~paperThere THEN Absent
                  ELSE IF params.paper.doi \in {Absent, Null, Str(<<>>), Num(0)}
                       THEN Null
                       ELSE params.paper.doi)
           /\ m.chunk_id =
                 (IF inputThere THEN ValueOrNull(params.input.chunk_id) ELSE Absent)
           /\ m.content_type =
                 (IF inputThere THEN ValueOrNull(params.input.content_type)
                  ELSE Absent)
           /\ \A key \in DOMAIN m :
                 m[key].k \notin {"absent", "null"} =>
                     \/ key = "task_id" /\ m[key] = params.task_id
                     \/ key = "schema_name" /\ m[key] = params.schema.name
                     \/ key = "schema_version" /\ m[key] = params.schema.version
                     \/ key = "input_doi" /\ m[key] = params.paper.doi
                     \/ key = "chunk_id" /\ m[key] = params.input.chunk_id
                     \/ key = "content_type" /\ m[key] = params.input.content_type

C8_Witness ==
    /\ extracted # NothingExtracted
    /\ params.schema.k = "dict"
    /\ params.schema.name = Absent
    /\ extracted.meta.schema_name = Null
    /\ params.paper.doi = Str(<<>>)
    /\ extracted.meta.input_doi = Null
    /\ params.input.chunk_id = Absent
    /\ extracted.meta.chunk_id = Null
    /\ extracted.meta.task_id = Absent

\* C9: for a value the validator accepts, the success result holds every
\* schema-unknown field of the top level, of paper, of each equation and of
\* extraction_metadata with its value unchanged, and the equations in the
\* same number and order.
C9_UnknownFieldsPreserved ==
    (validated # NoResponse /\ Conforms(output_dict)) =>
        /\ "result" \in validated.members
        /\ validated.result.extra = output_dict.extra
        /\ validated.result.paper.extra = output_dict.paper.extra
        /\ validated.result.extraction_metadata.extra =
              output_dict.extraction_metadata.extra
        /\ Len(validated.result.equations.items) = Len(output_dict.equations.items)
        /\ \A i \in 1..Len(output_dict.equations.items) :
              /\ validated.result.equations.items[i].notes =
                    output_dict.equations.items[i].notes
              /\ validated.result.equations.items[i].extra =
                    output_dict.equations.items[i].extra
              /\ validated.result.equations.items[i].latex.s =
                    output_dict.equations.items[i].latex.s

C9_Witness ==
    /\ "result" \in validated.members
    /\ output_dict.extra = Str(<<"z">>)
    /\ output_dict.paper.extra = Num(9)
    /\ output_dict.extraction_metadata.extra = Str(<<"m">>)
    /\ Len(output_dict.equations.items) = 2
    /\ output_dict.equations.items[1].notes = Absent
    /\ output_dict.equations.items[2].notes = Str(<<"n">>)
    /\ output_dict.equations.items[1].extra = Bool(FALSE)
    /\ output_dict.equations.items[2].extra = Absent
    /\ validated.result.equations.items[2].notes = Str(<<"n">>)
    /\ validated.result.equations.items[1].extra = Bool(FALSE)

\* C10: with the stub agent installed, every request with an id and with
\* text gets a success envelope, never the -32000 error.
C10_StubAlwaysConforms ==
    run_agent_fn = "stub" =>
        \A i \in Handled :
            (HasId(ItemOf(i)) /\ trace[i].text.k = "str") =>
                /\ "result" \in trace[i].resp.members
                /\ trace[i].resp.error.code # SchemaErrorCode

====
